---- MODULE Spec2Model ----
(***************************************************************************)
(* Model of lib/score_temp.py (FISH probe temperature-condition score).    *)
(*                                                                         *)
(* Text is a sequence of chunks.  A chunk is an indivisible piece of text  *)
(* (one character such as "1", ",", "\t", or a word such as "oligo_name"   *)
(* that contains neither whitespace nor the delimiter), so concatenation   *)
(* of text is concatenation of sequences.  A number is a numerator over a  *)
(* fixed denominator (FracDen for the evaluators' fractions, ScoreDen for  *)
(* scores).  A Python dict is a sequence of [k, v] entries in insertion    *)
(* order (row dicts are functions from field name to value).               *)
(***************************************************************************)
EXTENDS Integers, Sequences, FiniteSets, TLC

VARIABLES pc, fa_mvalue, fa_mval_s, fa_mode, doSingleOut, tin, sin,
          fout, closes, parsed_mval, mvalue, t, s, idx, scores,
          min_score, stdout, error, tsv_file, tsv_out

vars == <<pc, fa_mvalue, fa_mval_s, fa_mode, doSingleOut, tin, sin,
          fout, closes, parsed_mval, mvalue, t, s, idx, scores,
          min_score, stdout, error, tsv_file, tsv_out>>

\* ------------------------------------------------------------------ bounds
MaxTRows == 3
MaxSRows == 2
FracDen == 2
MaxMvalLen == 4
MaxTsvLen == 7

\* ------------------------------------------------------------ text helpers
TAB == "\t"
SP == " "
NL == "\n"
Whitespace == {TAB, SP, NL}
Sign == {"+", "-"}
Digits == {"0", "1", "2", "3", "4", "5", "6", "7", "8", "9"}
NumChar == Digits \cup {"."}

Range(f) == {f[i] : i \in DOMAIN f}

SeqsUpTo(S, n) == UNION {[1..m -> S] : m \in 0..n}

RECURSIVE Concat(_)
Concat(ss) == IF ss = <<>> THEN <<>> ELSE Head(ss) \o Concat(Tail(ss))

\* str.strip(): drop leading and trailing whitespace
RECURSIVE lstrip(_)
lstrip(str) ==
    IF str = <<>> THEN <<>>
    ELSE IF Head(str) \in Whitespace THEN lstrip(Tail(str)) ELSE str

RECURSIVE rstrip(_)
rstrip(str) ==
    IF str = <<>> THEN <<>>
    ELSE IF str[Len(str)] \in Whitespace
         THEN rstrip(SubSeq(str, 1, Len(str) - 1)) ELSE str

strip(str) == rstrip(lstrip(str))

\* str.split(delim): pieces between occurrences of delim, never empty list
RECURSIVE split_at(_, _, _, _)
split_at(str, delim, cur, acc) ==
    IF str = <<>> THEN Append(acc, cur)
    ELSE IF Head(str) = delim
         THEN split_at(Tail(str), delim, <<>>, Append(acc, cur))
         ELSE split_at(Tail(str), delim, Append(cur, Head(str)), acc)

split(str, delim) == split_at(str, delim, <<>>, <<>>)

\* str.split(): maximal runs of non-whitespace, possibly none
RECURSIVE split_ws_at(_, _, _)
split_ws_at(str, cur, acc) ==
    LET flushed == IF cur = <<>> THEN acc ELSE Append(acc, cur) IN
    IF str = <<>> THEN flushed
    ELSE IF Head(str) \in Whitespace
         THEN split_ws_at(Tail(str), <<>>, flushed)
         ELSE split_ws_at(Tail(str), Append(cur, Head(str)), acc)

split_ws(str) == split_ws_at(str, <<>>, <<>>)

\* float(str) succeeds: optional sign, digits with at most one point and
\* at least one digit (exponents, inf and nan are outside the alphabets)
IsFloat(str) ==
    LET sg == IF str # <<>> /\ str[1] \in Sign THEN 1 ELSE 0
        body == SubSeq(str, sg + 1, Len(str))
    IN /\ \A i \in DOMAIN body : body[i] \in NumChar
       /\ \E i \in DOMAIN body : body[i] \in Digits
       /\ Cardinality({i \in DOMAIN body : body[i] = "."}) <= 1

\* ---------------------------------------------------------------- files
NoFile == [exists |-> FALSE, text |-> <<>>]

FileOf(text) == [exists |-> TRUE, text |-> text]

\* the lines a text-mode file iterator yields (each without its newline)
FileRows(text) ==
    LET parts == split(text, NL) IN
    IF parts[Len(parts)] = <<>> THEN SubSeq(parts, 1, Len(parts) - 1)
    ELSE parts

\* the row dictionary built from a header and a data row of equal length
RowDict(first_row, row) ==
    [f \in Range(first_row) |->
        row[CHOOSE i \in DOMAIN first_row :
               /\ first_row[i] = f
               /\ \A j \in DOMAIN first_row : first_row[j] = f => j <= i]]

\* the header split on whitespace like the data rows
HeaderFields_Mutant(line) == split_ws(strip(line))

\* first_row = row.strip().split(delim), delim = "\t"
HeaderFields(line) == split(strip(line), TAB)

\* row = row.strip().split()
RowTokens(line) == split_ws(strip(line))

\* the column check with >= in place of ==
SameColumns_Mutant(row, first_row) == Len(row) >= Len(first_row)

\* len(row) == len(first_row)
SameColumns(row, first_row) == Len(row) = Len(first_row)

RECURSIVE read_rows(_, _, _)
read_rows(rows, first_row, out) ==
    IF rows = <<>> THEN out
    ELSE IF 0 = Len(first_row)
         THEN read_rows(Tail(rows), HeaderFields(Head(rows)), out)
         ELSE LET row == RowTokens(Head(rows)) IN
              IF ~SameColumns(row, first_row) THEN <<>>
              ELSE read_rows(Tail(rows), first_row,
                             Append(out, RowDict(first_row, row)))

read_tsv(file) ==
    IF ~file.exists THEN <<>>
    ELSE read_rows(FileRows(file.text), <<>>, <<>>)

\* ------------------------------------------------------------ dictionaries
HasKey(dict, key) == \E i \in DOMAIN dict : dict[i].k = key

Get(dict, key) == dict[CHOOSE i \in DOMAIN dict : dict[i].k = key].v

Keys(dict) == [i \in DOMAIN dict |-> dict[i].k]

\* every row opens a group of its own
Store_Mutant(outd, key, d) == Append(outd, [k |-> key, v |-> <<d>>])

\* outd[key].append(d) when key is present, outd[key] = [d] otherwise
Store(outd, key, d) ==
    IF HasKey(outd, key)
    THEN [i \in DOMAIN outd |->
            IF outd[i].k = key THEN [k |-> key, v |-> Append(outd[i].v, d)]
            ELSE outd[i]]
    ELSE Append(outd, [k |-> key, v |-> <<d>>])

\* the key kept whole
KeyPrefix_Mutant(val, delim) == val

\* d[k].split(delim)[0] when delim occurs in d[k], d[k] otherwise
KeyPrefix(val, delim) ==
    IF delim \in Range(val) THEN split(val, delim)[1] ELSE val

RECURSIVE reparse_loop(_, _, _, _)
reparse_loop(l, k, delim, outd) ==
    IF l = <<>> THEN [exit |-> FALSE, outd |-> outd]
    ELSE LET d == Head(l) IN
         IF ~(k \in DOMAIN d) THEN [exit |-> TRUE, outd |-> <<>>]
         ELSE LET key == KeyPrefix(d[k], delim)
                  dd == [d EXCEPT ![k] = key]
              IN reparse_loop(Tail(l), k, delim, Store(outd, key, dd))

reparse_tsv_list(l, k, delim) == reparse_loop(l, k, delim, <<>>)

\* ------------------------------------------------------- m-value parsing
RECURSIVE RunLen(_, _)
RunLen(str, i) ==
    IF i <= Len(str) /\ str[i] \in NumChar THEN 1 + RunLen(str, i + 1) ELSE 0

NoMatch == [found |-> FALSE, g0 |-> <<>>, g1 |-> <<>>, g2 |-> <<>>]

\* mregex[0] = (([+-]?[0-9\.]*)L([+-][0-9\.]*)) anchored at position i
MatchLinearAt(str, i) ==
    LET sg == IF i <= Len(str) /\ str[i] \in Sign THEN 1 ELSE 0
        n == RunLen(str, i + sg)
        lpos == i + sg + n
    IN IF /\ lpos + 1 <= Len(str)
          /\ str[lpos] = "L"
          /\ str[lpos + 1] \in Sign
       THEN LET m == RunLen(str, lpos + 2) IN
            [found |-> TRUE,
             g0 |-> SubSeq(str, i, lpos + 1 + m),
             g1 |-> SubSeq(str, i, lpos - 1),
             g2 |-> SubSeq(str, lpos + 1, lpos + 1 + m)]
       ELSE NoMatch

\* re.search(mregex[0], str): the leftmost position that matches
SearchLinear(str) ==
    LET hits == {i \in 1..(Len(str) + 1) : MatchLinearAt(str, i).found} IN
    IF hits = {} THEN NoMatch
    ELSE MatchLinearAt(str, CHOOSE i \in hits : \A j \in hits : i <= j)

\* re.search(mregex[1], str), mregex[1] = ([+-]?[0-9\.]*): every part of
\* the pattern may be empty, so the search always matches at position 1
SearchConst(str) ==
    LET sg == IF 1 <= Len(str) /\ str[1] \in Sign THEN 1 ELSE 0
        n == RunLen(str, 1 + sg)
    IN [found |-> TRUE, g0 |-> SubSeq(str, 1, sg + n),
        g1 |-> <<>>, g2 |-> <<>>]

NoMvalue == [shape |-> "unset", a |-> <<>>, b |-> <<>>]

\* lambda x: float(mgroups[1]) * x + float(mgroups[2])
LinearMvalue(mgroups) == [shape |-> "linear", a |-> mgroups.g1, b |-> mgroups.g2]

\* lambda x: float(mgroup)
ConstMvalue(mgroup) == [shape |-> "const", a |-> <<>>, b |-> mgroup]

\* calling the lambda raises ValueError when a float() in its body fails
MvalueRaises(mv) ==
    \/ mv.shape = "linear" /\ (~IsFloat(mv.a) \/ ~IsFloat(mv.b))
    \/ mv.shape = "const" /\ ~IsFloat(mv.b)

\* ----------------------------------------------------------------- inputs
MvalAlphabet == {"1", ".", "+", "L", "x"}

MvalStrings == SeqsUpTo(MvalAlphabet, MaxMvalLen)

\* --fa-mvalue samples of a whole run: "1", "1L+1", "1..1", "x"
MvalSamples == {<<"1">>, <<"1", "L", "+", "1">>, <<"1", ".", ".", "1">>, <<"x">>}

FaModes == {"mcconaughy", "wright"}

\* a file made of the given lines, each terminated by a newline
TextOf(lines) == Concat([i \in DOMAIN lines |-> Append(lines[i], NL)])

\* the lines of a table: well-formed rows, then possibly one short row
\* (read_tsv stops reading at the first row of another length)
TableLines(good, short, n) ==
    SeqsUpTo(good, n) \cup {Append(rows, short) : rows \in SeqsUpTo(good, n - 1)}

THeaders == {<<"oligo_name", TAB, "dH", TAB, "dS", TAB, "Seq">>,
             <<"name", TAB, "dH", TAB, "dS", TAB, "Seq">>}

TRowLines == {<<"p", SP, "1", SP, "1", SP, "G">>,
              <<"p", ",", "v", SP, "1", SP, "1", SP, "G">>,
              <<"q", SP, "1", SP, "1", SP, "G">>}

TShortLine == <<"p", SP, "1", SP, "1">>

TargetFiles ==
    {NoFile, FileOf(<<>>)} \cup
    {FileOf(TextOf(<<h>> \o rows)) :
        h \in THeaders, rows \in TableLines(TRowLines, TShortLine, MaxTRows)}

SHeaders == {<<"oligo_name", TAB, "dH", TAB, "dS">>}

SRowLines == {<<"p", SP, "1", SP, "1">>,
              <<"q", ",", "v", SP, "1", SP, "1">>}

SShortLine == <<"p", SP, "1">>

SecondFiles ==
    {NoFile} \cup
    {FileOf(TextOf(<<h>> \o rows)) :
        h \in SHeaders, rows \in TableLines(SRowLines, SShortLine, MaxSRows)}

TsvAlphabet == {"p", TAB, SP, NL}

TsvFiles == {NoFile} \cup {FileOf(text) : text \in SeqsUpTo(TsvAlphabet, MaxTsvLen)}

\* the duplex and single-strand evaluators return a fraction in [0,1]
Fractions == 0..FracDen

ScoreDen == FracDen * FracDen

\* ------------------------------------------------------------------ scoring
\* hybrid taken as 1 + dissoc
Score_Mutant(sf, tf) == sf * (FracDen + tf)

\* unfold * hybrid, with hybrid = 1 - dissoc
Score(sf, tf) ==
    LET unfold == sf
        dissoc == tf
        hybrid == FracDen - dissoc
    IN unfold * hybrid

\* the comparison turned round
LowestOf_Mutant(score, lowest) == IF score >= lowest THEN score ELSE lowest

\* if score <= min_score: min_score = score
LowestOf(score, lowest) == IF score <= lowest THEN score ELSE lowest

\* "%f" of a score: six decimals, rounded to nearest
FormatF(score) ==
    LET micro == (score * 1000000 + ScoreDen \div 2) \div ScoreDen
        digit(i) == ToString((micro \div (10 ^ (6 - i))) % 10)
    IN <<ToString(micro \div 1000000), ".">> \o [i \in 1..6 |-> digit(i)]

HeaderLine == <<"name", TAB, "score", NL>>

\* "%s\t%f\n" % (oligo_name, score)
ScoreLine(oligo_name, score) == oligo_name \o <<TAB>> \o FormatF(score) \o <<NL>>

\* the first exception the target half of the loop body raises, if any
TargetError(row) ==
    IF ~(<<"dH">> \in DOMAIN row) THEN "KeyError"
    ELSE IF ~IsFloat(row[<<"dH">>]) THEN "ValueError"
    ELSE IF ~(<<"dS">> \in DOMAIN row) THEN "KeyError"
    ELSE IF ~IsFloat(row[<<"dS">>]) THEN "ValueError"
    ELSE IF ~(<<"Seq">> \in DOMAIN row) THEN "KeyError"
    ELSE "none"

\* the first exception the secondary-structure half raises, if any
SecondError(table, oligo_name) ==
    IF ~HasKey(table, oligo_name) THEN "KeyError"
    ELSE LET row == Get(table, oligo_name)[1] IN
         IF ~(<<"dH">> \in DOMAIN row) THEN "KeyError"
         ELSE IF ~IsFloat(row[<<"dH">>]) THEN "ValueError"
         ELSE IF ~(<<"dS">> \in DOMAIN row) THEN "KeyError"
         ELSE IF ~IsFloat(row[<<"dS">>]) THEN "ValueError"
         ELSE "none"

\* ------------------------------------------------------------------- states
NoOutput == [state |-> "none", lines |-> <<>>]

\* the state after argument parsing; the tables are read at lines 228-229
InitRun(mvals) ==
    /\ pc = "open"
    /\ fa_mvalue \in mvals
    /\ fa_mval_s = fa_mvalue
    /\ fa_mode \in FaModes
    /\ doSingleOut \in BOOLEAN
    /\ tin = NoFile
    /\ sin = NoFile
    /\ fout = NoOutput
    /\ closes = 0
    /\ parsed_mval = FALSE
    /\ mvalue = NoMvalue
    /\ t = <<>>
    /\ s = <<>>
    /\ idx = 0
    /\ scores = <<>>
    /\ min_score = 0
    /\ stdout = <<>>
    /\ error = "none"
    /\ tsv_file = NoFile
    /\ tsv_out = <<>>

Init == InitRun(MvalSamples)

InitMval == InitRun(MvalStrings)

InitTsv ==
    /\ pc = "tsv_call"
    /\ tsv_file \in TsvFiles
    /\ tsv_out = <<>>
    /\ fa_mvalue = <<>>
    /\ fa_mval_s = <<>>
    /\ fa_mode = "mcconaughy"
    /\ doSingleOut = FALSE
    /\ tin = NoFile
    /\ sin = NoFile
    /\ fout = NoOutput
    /\ closes = 0
    /\ parsed_mval = FALSE
    /\ mvalue = NoMvalue
    /\ t = <<>>
    /\ s = <<>>
    /\ idx = 0
    /\ scores = <<>>
    /\ min_score = 0
    /\ stdout = <<>>
    /\ error = "none"

\* ------------------------------------------------------------------ actions
\* lines 103-106: open the per-probe output and write its header
OpenOutput ==
    /\ pc = "open"
    /\ fout' = IF doSingleOut THEN [state |-> "open", lines |-> <<HeaderLine>>]
               ELSE fout
    /\ pc' = "mval"
    /\ UNCHANGED <<fa_mvalue, fa_mval_s, fa_mode, doSingleOut, tin, sin,
                   closes, parsed_mval, mvalue, t, s, idx, scores,
                   min_score, stdout, error, tsv_file, tsv_out>>

\* lines 110-128: try the xL+y format, then the x format
EvaluateMvalue ==
    /\ pc = "mval"
    /\ LET mlin == SearchLinear(fa_mval_s)
           linear == mlin.found /\ fa_mval_s = mlin.g0
           mcon == SearchConst(fa_mval_s)
           const == ~linear /\ mcon.found /\ fa_mval_s = mcon.g0
       IN /\ parsed_mval' = (linear \/ const)
          /\ mvalue' = IF linear THEN LinearMvalue(mlin)
                       ELSE IF const THEN ConstMvalue(mcon.g0)
                       ELSE NoMvalue
    /\ pc' = "check"
    /\ UNCHANGED <<fa_mvalue, fa_mval_s, fa_mode, doSingleOut, tin, sin,
                   fout, closes, t, s, idx, scores, min_score, stdout,
                   error, tsv_file, tsv_out>>

\* lines 130-132: sys.exit on an unparsed m-value
UsageError ==
    /\ pc = "check"
    /\ ~parsed_mval
    /\ pc' = "exit"
    /\ error' = "usage"
    /\ UNCHANGED <<fa_mvalue, fa_mval_s, fa_mode, doSingleOut, tin, sin,
                   fout, closes, parsed_mval, mvalue, t, s, idx, scores,
                   min_score, stdout, tsv_file, tsv_out>>

\* lines 134-136: fix the m-value label
FixLabel ==
    /\ pc = "check"
    /\ parsed_mval
    /\ fa_mval_s' = IF ~(fa_mode \in {"wright"}) THEN <<"-">> ELSE fa_mval_s
    /\ pc' = "read_t"
    /\ UNCHANGED <<fa_mvalue, fa_mode, doSingleOut, tin, sin, fout, closes,
                   parsed_mval, mvalue, t, s, idx, scores, min_score,
                   stdout, error, tsv_file, tsv_out>>

\* line 228: t = reparse_tsv_list(read_tsv(tin_path), 'oligo_name', ','),
\* tin being the file that tin_path names at that moment
ReadTarget ==
    /\ pc = "read_t"
    /\ \E file \in TargetFiles :
          /\ tin' = file
          /\ LET r == reparse_tsv_list(read_tsv(file), <<"oligo_name">>, ",") IN
             IF r.exit
             THEN /\ pc' = "exit"
                  /\ error' = "no_key"
                  /\ UNCHANGED t
             ELSE /\ pc' = "read_s"
                  /\ t' = r.outd
                  /\ UNCHANGED error
    /\ UNCHANGED <<fa_mvalue, fa_mval_s, fa_mode, doSingleOut, sin,
                   fout, closes, parsed_mval, mvalue, s, idx, scores,
                   min_score, stdout, tsv_file, tsv_out>>

\* lines 229-232: the secondary-structure table, then min_score = 1
ReadSecond ==
    /\ pc = "read_s"
    /\ \E file \in SecondFiles :
          /\ sin' = file
          /\ LET r == reparse_tsv_list(read_tsv(file), <<"oligo_name">>, ",") IN
             IF r.exit
             THEN /\ pc' = "exit"
                  /\ error' = "no_key"
                  /\ UNCHANGED <<s, min_score, idx>>
             ELSE /\ pc' = "loop"
                  /\ s' = r.outd
                  /\ min_score' = ScoreDen
                  /\ idx' = 1
                  /\ UNCHANGED error
    /\ UNCHANGED <<fa_mvalue, fa_mval_s, fa_mode, doSingleOut, tin,
                   fout, closes, parsed_mval, mvalue, t, scores, stdout,
                   tsv_file, tsv_out>>

\* lines 235-285: one iteration of the loop over t.keys()
ScoreOligo ==
    /\ pc = "loop"
    /\ idx <= Len(t)
    /\ LET oligo_name == t[idx].k
           terr == TargetError(t[idx].v[1])
           serr == SecondError(s, oligo_name)
       IN \/ /\ terr # "none"
             /\ pc' = "crash"
             /\ error' = terr
             /\ UNCHANGED <<fout, idx, scores, min_score>>
          \/ \* the melting library calls mvalue and a float() in it fails
             /\ terr = "none"
             /\ MvalueRaises(mvalue)
             /\ pc' = "crash"
             /\ error' = "ValueError"
             /\ UNCHANGED <<fout, idx, scores, min_score>>
          \/ /\ terr = "none"
             /\ serr # "none"
             /\ pc' = "crash"
             /\ error' = serr
             /\ UNCHANGED <<fout, idx, scores, min_score>>
          \/ /\ terr = "none"
             /\ serr = "none"
             /\ \E tf \in Fractions, sf \in Fractions :
                  LET score == Score(sf, tf) IN
                  /\ fout' = IF doSingleOut
                             THEN [fout EXCEPT !.lines =
                                      Append(@, ScoreLine(oligo_name, score))]
                             ELSE fout
                  /\ scores' = Append(scores, score)
                  /\ min_score' = LowestOf(score, min_score)
             /\ idx' = idx + 1
             /\ UNCHANGED <<pc, error>>
    /\ UNCHANGED <<fa_mvalue, fa_mval_s, fa_mode, doSingleOut, tin, sin,
                   closes, parsed_mval, mvalue, t, s, stdout, tsv_file,
                   tsv_out>>

\* lines 287-289: close the per-probe output after the loop
CloseOutput ==
    /\ pc = "loop"
    /\ idx > Len(t)
    /\ IF doSingleOut
       THEN /\ fout' = [fout EXCEPT !.state = "closed"]
            /\ closes' = closes + 1
       ELSE UNCHANGED <<fout, closes>>
    /\ pc' = "print"
    /\ UNCHANGED <<fa_mvalue, fa_mval_s, fa_mode, doSingleOut, tin, sin,
                   parsed_mval, mvalue, t, s, idx, scores, min_score,
                   stdout, error, tsv_file, tsv_out>>

\* line 292: print(min_score)
PrintResult ==
    /\ pc = "print"
    /\ stdout' = Append(stdout, min_score)
    /\ pc' = "done"
    /\ UNCHANGED <<fa_mvalue, fa_mval_s, fa_mode, doSingleOut, tin, sin,
                   fout, closes, parsed_mval, mvalue, t, s, idx, scores,
                   min_score, error, tsv_file, tsv_out>>

\* a call of read_tsv on one file
CallReadTsv ==
    /\ pc = "tsv_call"
    /\ tsv_out' = read_tsv(tsv_file)
    /\ pc' = "tsv_done"
    /\ UNCHANGED <<fa_mvalue, fa_mval_s, fa_mode, doSingleOut, tin, sin,
                   fout, closes, parsed_mval, mvalue, t, s, idx, scores,
                   min_score, stdout, error, tsv_file>>

Next ==
    \/ OpenOutput
    \/ EvaluateMvalue
    \/ UsageError
    \/ FixLabel
    \/ ReadTarget
    \/ ReadSecond
    \/ ScoreOligo
    \/ CloseOutput
    \/ PrintResult

Spec == Init /\ [][Next]_vars

NextMval ==
    \/ OpenOutput
    \/ EvaluateMvalue
    \/ UsageError
    \/ FixLabel

SpecMval == InitMval /\ [][NextMval]_vars

NextTsv == CallReadTsv

SpecTsv == InitTsv /\ [][NextTsv]_vars

\* ------------------------------------------------- vocabulary of the claims
MinOf(S) == CHOOSE x \in S : \A y \in S : x <= y

\* the part of val before the first occurrence of delim, val when absent
PrefixBefore(val, delim) ==
    IF \E i \in DOMAIN val : val[i] = delim
    THEN SubSeq(val, 1, MinOf({i \in DOMAIN val : val[i] = delim}) - 1)
    ELSE val

\* the values of ids without repetition, in order of first occurrence
RECURSIVE FirstOccurrences(_)
FirstOccurrences(ids) ==
    IF ids = <<>> THEN <<>>
    ELSE LET front == SubSeq(ids, 1, Len(ids) - 1)
             last == ids[Len(ids)]
         IN IF \E i \in DOMAIN front : front[i] = last
            THEN FirstOccurrences(front)
            ELSE Append(FirstOccurrences(front), last)

\* a numeric constant, or a linear form aL+b with numeric a and b
WellFormedMvalue(str) ==
    \/ IsFloat(str)
    \/ \E i \in DOMAIN str :
          /\ str[i] = "L"
          /\ IsFloat(SubSeq(str, 1, i - 1))
          /\ i < Len(str)
          /\ str[i + 1] \in Sign
          /\ IsFloat(SubSeq(str, i + 1, Len(str)))

\* some data line of the file has another token count than its header
TableDiscarded(file) ==
    /\ file.exists
    /\ LET rows == FileRows(file.text) IN
       \E i \in 2..Len(rows) :
          Len(split_ws(rows[i])) # Len(split(strip(rows[1]), TAB))

\* some row read from the file lacks the aggregation key
MissingKey(file) ==
    \E i \in DOMAIN read_tsv(file) :
       ~(<<"oligo_name">> \in DOMAIN read_tsv(file)[i])

\* the state right after line 228: t holds the aggregated target table
TargetLoaded == pc = "read_s"

\* the normalized probe identifiers of the target table, row by row
IdsOf(l) == [i \in DOMAIN l |-> PrefixBefore(l[i][<<"oligo_name">>], ",")]

TargetIds == IdsOf(CHOOSE l \in {read_tsv(tin)} : TRUE)

\* ------------------------------------------------------------------ claims
\* C1: the value printed at the end of a normally completed run is the
\* minimum of the per-probe scores when the target table yields at least
\* one probe identifier, and 1.0 when it yields none; one score per probe.
C1_ReportedMinimum ==
    pc = "done" =>
       \A ids \in {FirstOccurrences(TargetIds)} :
          /\ Len(scores) = Len(ids)
          /\ stdout = <<IF ids # <<>> THEN MinOf(Range(scores)) ELSE ScoreDen>>

C1_Witness ==
    /\ pc = "done"
    /\ Len(scores) >= 2
    /\ scores[1] < scores[2]
    /\ scores[1] < ScoreDen

\* C2: every probe score, unfolded fraction times one minus dissociated
\* fraction with both fractions in [0,1], lies in [0,1].
C2_ScoreInUnitInterval ==
    \A i \in DOMAIN scores : 0 <= scores[i] /\ scores[i] <= ScoreDen

C2_Witness ==
    /\ scores # <<>>
    /\ 0 < scores[1]
    /\ scores[1] < ScoreDen

\* C3: the m-value is accepted only when the whole string is a numeric
\* constant or a linear form aL+b with numeric a and b; any other string
\* ends the run with the usage error.
C3_AcceptsOnlyNumericShapes ==
    /\ parsed_mval => WellFormedMvalue(fa_mvalue)
    /\ (pc \notin {"open", "mval", "check"} /\ ~WellFormedMvalue(fa_mvalue))
          => (pc = "exit" /\ error = "usage")

\* C4: when the run ends with the usage error, nothing has been written to
\* the per-probe output file.
C4_NoPartialOutput ==
    (pc = "exit" /\ error = "usage" /\ doSingleOut) => fout.lines = <<>>

\* C5: a row missing the aggregation key, a malformed m-value, or a target
\* or secondary-structure table discarded for a column-count mismatch each
\* keep the run from printing a minimum score.
C5_StructuralErrorsFatal ==
    ( \/ ~WellFormedMvalue(fa_mvalue)
      \/ MissingKey(tin)
      \/ MissingKey(sin)
      \/ TableDiscarded(tin)
      \/ TableDiscarded(sin) ) => (pc # "done" /\ stdout = <<>>)

\* C6: when the secondary-structure file does not exist the run does not
\* crash, whatever the target table (the m-value being well formed).
C6_AbsentSecondTolerated ==
    (~sin.exists /\ WellFormedMvalue(fa_mvalue)) => pc # "crash"

\* C7: read_tsv returns rows only if every line after the header has as
\* many whitespace tokens as the header has fields; one line (a blank one
\* included) with another count empties the result whatever preceded it;
\* otherwise there is one row per data line, in input order.
C7_AllOrNothingRows ==
    (pc = "tsv_done" /\ tsv_file.exists) =>
       LET rows == FileRows(tsv_file.text)
           hdr == split(strip(rows[1]), TAB)
           tok(i) == split_ws(rows[i + 1])
           mismatch == \E i \in 1..(Len(rows) - 1) : Len(tok(i)) # Len(hdr)
       IN /\ tsv_out # <<>> => ~mismatch
          /\ mismatch => tsv_out = <<>>
          /\ ~mismatch =>
                /\ Len(tsv_out) = IF rows = <<>> THEN 0 ELSE Len(rows) - 1
                /\ \A i \in DOMAIN tsv_out : \A j \in DOMAIN hdr :
                      (\A jj \in DOMAIN hdr : hdr[jj] = hdr[j] => jj <= j)
                         => tsv_out[i][hdr[j]] = tok(i)[j]

C7_Witness ==
    /\ pc = "tsv_done"
    /\ tsv_file.exists
    /\ tsv_out = <<>>
    /\ LET rows == FileRows(tsv_file.text) IN
       /\ Len(rows) = 3
       /\ Len(split_ws(rows[2])) = Len(split(strip(rows[1]), TAB))
       /\ rows[3] = <<>>

\* C8: with per-probe output requested, a normally completed run leaves in
\* the output file the header and then one line per distinct normalized
\* probe identifier of the target table, in order of first occurrence, and
\* the stream has been closed exactly once.
C8_OutputFile ==
    /\ closes <= 1
    /\ (pc = "done" /\ doSingleOut) =>
          \A ids \in {FirstOccurrences(TargetIds)} :
          /\ Len(fout.lines) = 1 + Len(ids)
          /\ fout.lines[1] = HeaderLine
          /\ \A i \in DOMAIN ids :
                fout.lines[i + 1] = ids[i] \o <<TAB>> \o FormatF(scores[i]) \o <<NL>>
          /\ fout.state = "closed"
          /\ closes = 1

C8_Witness ==
    /\ pc = "done"
    /\ doSingleOut
    /\ Len(TargetIds) = 3
    /\ TargetIds[1] = TargetIds[3]
    /\ TargetIds[1] # TargetIds[2]
    /\ Len(fout.lines) = 3

\* C9: reparse_tsv_list puts every row in the group of the part of its key
\* before the first delimiter: the groups are the distinct prefixes in
\* order of first occurrence and each holds its rows in input order.
C9_Grouping ==
    TargetLoaded =>
       \A l \in {read_tsv(tin)} : \A ids \in {TargetIds} :
          LET k == <<"oligo_name">>
              members(id) == {i \in DOMAIN l : ids[i] = id}
          IN /\ Keys(t) = FirstOccurrences(ids)
             /\ \A g \in DOMAIN t : \A mem \in {members(t[g].k)} :
                   /\ Len(t[g].v) = Cardinality(mem)
                   /\ \A n \in DOMAIN t[g].v :
                         \E i \in mem :
                            /\ Cardinality({j \in mem : j <= i}) = n
                            /\ t[g].v[n] = [l[i] EXCEPT ![k] = t[g].k]

C9_Witness ==
    /\ TargetLoaded
    /\ Len(t) = 2
    /\ Len(t[1].v) = 2
    /\ LET l == read_tsv(tin) IN
       /\ Len(l) = 3
       /\ l[1][<<"oligo_name">>] # l[3][<<"oligo_name">>]
       /\ TargetIds[2] # TargetIds[1]

\* C10 as stated: the field names come from the first non-empty line, a
\* blank line before it not being taken as the header.
C10_HeaderIsFirstNonEmptyLine ==
    (pc = "tsv_done" /\ tsv_file.exists) =>
       LET rows == FileRows(tsv_file.text)
           full == {i \in DOMAIN rows : strip(rows[i]) # <<>>}
       IN \A i \in DOMAIN tsv_out :
             /\ full # {}
             /\ DOMAIN tsv_out[i] = Range(split(strip(rows[MinOf(full)]), TAB))

\* C10 amended: the field names come from the first line of the file, split
\* on tab after stripping, a blank first line giving the single field name
\* ""; every later line is a data row split on arbitrary whitespace.
C10_HeaderIsFirstLine ==
    (pc = "tsv_done" /\ tsv_file.exists) =>
       LET rows == FileRows(tsv_file.text) IN
       \A i \in DOMAIN tsv_out :
          /\ DOMAIN tsv_out[i] = Range(split(strip(rows[1]), TAB))
          /\ \A f \in DOMAIN tsv_out[i] :
                tsv_out[i][f] \in Range(split_ws(rows[i + 1]))

C10_Witness ==
    /\ pc = "tsv_done"
    /\ tsv_file.exists
    /\ tsv_out # <<>>
    /\ strip(FileRows(tsv_file.text)[1]) = <<>>
    /\ DOMAIN tsv_out[1] = {<<>>}

====
